---- MODULE Spec2Model ----
(***************************************************************************)
(* A model of the Gemini live-audio client:                                *)
(*   - geminiService.ts (src/unnamed/part_001, lines 1-204): createBlob,   *)
(*     startConversation (playback scheduling in onmessage, microphone     *)
(*     capture through sessionPromise.then, close);                        *)
(*   - App.tsx (src/unnamed/part_001, lines 206-434): the transcript       *)
(*     accumulator in onMessage, onError, handleStart, handleStop.         *)
(* Each part of the program has its own specification over its own         *)
(* variables: SpecAudio (playback), SpecBlob (createBlob), SpecMic         *)
(* (capture), SpecTranscript (onMessage), SpecApp (session lifecycle).     *)
(* The variables of the other parts stay at their idle values.             *)
(***************************************************************************)
EXTENDS Integers, Sequences, FiniteSets, TLC

VARIABLES
    \* ---- playback path: startConversation.onmessage (part_001:57-103)
    clock,          \* localOutputAudioContext.currentTime
    nextStartTime,  \* let nextStartTime (part_001:58)
    sources,        \* const sources = new Set<AudioBufferSourceNode>() (part_001:57)
    decoding,       \* onmessage invocations suspended at `await decodeAudioData`
    started,        \* every source.start call so far, in call order
    msgCount,       \* number of server messages onmessage was invoked with
    handled,        \* ids of the messages whose interrupted flag was handled
    lastAudio,      \* what the last onmessage step did (for "immediately after")
    \* ---- capture path: createBlob (part_001:37-47)
    frame,          \* the Float32Array passed in, as numerators over SampleDen
    int16,          \* the Int16Array createBlob filled
    blobDone,       \* createBlob has returned
    \* ---- capture path: onaudioprocess, close (part_001:117-135)
    promise,        \* state of sessionPromise
    reactions,      \* callbacks registered by .then while the promise is pending
    jobs,           \* promise jobs queued to run, in order
    captured,       \* frames onaudioprocess captured, in order
    sent,           \* frames passed to session.sendRealtimeInput, in order
    earlyFrames,    \* how many frames were captured before the promise settled
    closeCalled,    \* close() was called
    closeMark,      \* how many frames had been captured when close() was called
    sessionClosed,  \* session.close() has run
    \* ---- transcript accumulator: App.handleStart.onMessage (part_001:260-308)
    inputRef,       \* currentInputTranscriptionRef.current
    outputRef,      \* currentOutputTranscriptionRef.current
    history,        \* transcriptionHistory
    isProcessingFileQuery,
    error,          \* the error banner
    queries,        \* onMessage invocations suspended in the file query
    closureFiles,   \* uploadedFiles as captured by the handleStart closure
    uploadedFiles,  \* the uploadedFiles state: file names, in list order
    callCount,      \* number of onMessage invocations so far
    queryCount,     \* number of file queries started so far
    pendIn,         \* input fragments delivered since the last turn-complete call
    pendOut,        \* output fragments delivered since the last turn-complete call
    delivered,      \* tokens of all fragments delivered so far
    earlier,        \* tokens of the fragments delivered before the last Start click
    lastMsg,        \* what the last onMessage step did
    \* ---- session lifecycle: App.handleStart, handleStop, callbacks (part_001:255-347)
    appState,       \* AppState
    liveSessionRef, \* liveSessionRef.current: a session number, or NoSession
    sessions,       \* the sessions startConversation created, in order
    lastApp         \* what the last lifecycle step did

audioVars == <<clock, nextStartTime, sources, decoding, started, msgCount,
               handled, lastAudio>>

blobVars == <<frame, int16, blobDone>>

micVars == <<promise, reactions, jobs, captured, sent, earlyFrames, closeCalled,
             closeMark, sessionClosed>>

transcriptVars == <<inputRef, outputRef, history, isProcessingFileQuery, error,
                    queries, closureFiles, uploadedFiles, callCount,
                    queryCount, pendIn, pendOut, delivered, earlier, lastMsg>>

appVars == <<appState, liveSessionRef, sessions, lastApp>>

vars == <<audioVars, blobVars, micVars, transcriptVars, appVars>>

\* What an action of one part leaves alone: the variables of the other parts.
notAudio == <<blobVars, micVars, transcriptVars, appVars>>
notBlob  == <<audioVars, micVars, transcriptVars, appVars>>
notMic   == <<audioVars, blobVars, transcriptVars, appVars>>
notTranscript == <<audioVars, blobVars, micVars, appVars, uploadedFiles, earlier>>
\* The lifecycle handlers write the banner and the history as well, and
\* handleStart captures the uploaded files.
notApp   == <<audioVars, blobVars, micVars, inputRef, outputRef,
             isProcessingFileQuery, queries, uploadedFiles, callCount, queryCount,
             pendIn, pendOut, delivered, lastMsg>>
\* The file list handlers write uploadedFiles only.
notFiles == <<audioVars, blobVars, micVars, appVars, inputRef, outputRef, history,
              isProcessingFileQuery, error, queries, closureFiles, callCount,
              queryCount, pendIn, pendOut, delivered, earlier, lastMsg>>

\* ------------------------------------------------------------------ bounds
MaxClock == 3
MaxMsgs  == 2
MaxDur   == 2
MaxFrameLen == 2   \* samples per frame passed to createBlob
SampleDen   == 5   \* samples are the multiples of 1/SampleDen in [-1, 1]
MaxFrames   == 4   \* frames onaudioprocess captures
MaxCalls    == 3   \* onMessage invocations
MaxQueries  == 2   \* file queries started
MaxStarts   == 2   \* clicks on Start

Max(a, b) == IF a >= b THEN a ELSE b
Min(a, b) == IF a <= b THEN a ELSE b

NoStop == 0 - 1   \* stopAt of a source stop() was never called on

(***************************************************************************)
(* PLAYBACK PATH                                                           *)
(***************************************************************************)

\* A slip that drops the max and restarts the schedule at the clock.
ClampToClockDropsMax(nst, now) == now

\* Math.max(nextStartTime, localOutputAudioContext.currentTime)   (line 78)
ClampToClock(nst, now) == Max(nst, now)

\* source.start(when): the Web Audio clock cannot start a buffer in the past,
\* so playback begins at max(when, currentTime).
BeginTime(when, now) == Max(when, now)

\* nextStartTime += audioBuffer.duration                          (line 87)
AdvanceStart(nst, dur) == nst + dur

\* A slip that stops only the sources that already began to sound.
StopOnlyPlaying(log, srcs, now) ==
    [i \in DOMAIN log |->
        IF log[i].id \in srcs /\ log[i].stopAt = NoStop /\ log[i].begin < now
        THEN [log[i] EXCEPT !.stopAt = now]
        ELSE log[i]]

\* for (const source of sources.values()) source.stop()       (lines 92-94)
\* A stopped source records the clock at which stop() was called.
StopAll(log, srcs, now) ==
    [i \in DOMAIN log |->
        IF log[i].id \in srcs /\ log[i].stopAt = NoStop
        THEN [log[i] EXCEPT !.stopAt = now]
        ELSE log[i]]

\* sources.clear()                                                (line 95)
ClearSources(srcs) == {}

\* nextStartTime = 0                                              (line 96)
ResetStart(nst) == 0

\* The half-open interval [lo, hi) during which entry b of the log sounds.
PlayFrom(b) == b.begin
PlayTo(b) ==
    IF b.stopAt = NoStop THEN b.begin + b.dur
    ELSE Max(b.begin, Min(b.begin + b.dur, b.stopAt))

\* Scheduled or playing now: started, not stopped, not yet played to its end.
Live(b) == b.stopAt = NoStop /\ clock < b.begin + b.dur

InitAudio ==
    /\ clock = 0
    /\ nextStartTime = 0
    /\ sources = {}
    /\ decoding = {}
    /\ started = <<>>
    /\ msgCount = 0
    /\ handled = {}
    /\ lastAudio = [op |-> "other", tracked |-> {}]

\* The interrupted branch of onmessage (lines 91-97), applied to the state
\* (log, srcs, nst) the audio branch left.
HandleInterrupt(id, log, srcs, nst) ==
    /\ started' = StopAll(log, srcs, clock)
    /\ sources' = ClearSources(srcs)
    /\ nextStartTime' = ResetStart(nst)
    /\ handled' = handled \cup {id}
    /\ lastAudio' = [op |-> "interrupt", tracked |-> srcs]

\* Audio scheduled since the last interruption has not finished: nextStartTime
\* is at or after the clock.
Busy ==
    /\ nextStartTime >= clock
    /\ started # <<>>
    /\ started[Len(started)].epoch = Cardinality(handled)

\* onmessage is invoked with a server message (lines 75-79, and 91-97 when the
\* message carries no audio).  With audio the invocation clamps nextStartTime
\* and suspends at `await decodeAudioData`.
Receive(audio, intr) ==
    /\ msgCount < MaxMsgs
    /\ msgCount' = msgCount + 1
    /\ UNCHANGED <<clock, notAudio>>
    /\ LET id == msgCount + 1 IN
       IF audio
       THEN /\ nextStartTime' = ClampToClock(nextStartTime, clock)
            /\ decoding' = decoding \cup
                  {[id |-> id, intr |-> intr, busy |-> Busy, recvClock |-> clock]}
            /\ lastAudio' = [op |-> "other", tracked |-> {}]
            /\ UNCHANGED <<sources, started, handled>>
       ELSE /\ UNCHANGED decoding
            /\ IF intr
               THEN HandleInterrupt(id, started, sources, nextStartTime)
               ELSE /\ lastAudio' = [op |-> "other", tracked |-> {}]
                    /\ UNCHANGED <<sources, started, handled, nextStartTime>>

\* The log entry of the source.start(nextStartTime) call of lines 80-86.
StartEntry(p, dur) ==
    [id |-> p.id, arg |-> nextStartTime,
     at |-> clock, begin |-> BeginTime(nextStartTime, clock), dur |-> dur,
     stopAt |-> NoStop, epoch |-> Cardinality(handled),
     busy |-> p.busy, recvClock |-> p.recvClock]

\* decodeAudioData resolves and the invocation resumes (lines 80-88), then runs
\* its interrupted branch (lines 91-97).
DecodeDone(p, dur) ==
    /\ p \in decoding
    /\ decoding' = decoding \ {p}
    /\ UNCHANGED <<clock, msgCount, notAudio>>
    /\ LET log  == Append(started, StartEntry(p, dur))
           srcs == sources \cup {p.id}
           nst  == AdvanceStart(nextStartTime, dur)
       IN IF p.intr
          THEN HandleInterrupt(p.id, log, srcs, nst)
          ELSE /\ started' = log
               /\ sources' = srcs
               /\ nextStartTime' = nst
               /\ lastAudio' = [op |-> "other", tracked |-> {}]
               /\ UNCHANGED handled

\* The 'ended' listener of a source that played to its end (lines 83-85).
Ended(i) ==
    /\ i \in DOMAIN started
    /\ started[i].id \in sources
    /\ clock >= started[i].begin + started[i].dur
    /\ sources' = sources \ {started[i].id}
    /\ lastAudio' = [op |-> "other", tracked |-> {}]
    /\ UNCHANGED <<clock, nextStartTime, decoding, started, msgCount, handled>>
    /\ UNCHANGED notAudio

\* The audio clock advances.
Tick ==
    /\ clock < MaxClock
    /\ clock' = clock + 1
    /\ lastAudio' = [op |-> "other", tracked |-> {}]
    /\ UNCHANGED <<nextStartTime, sources, decoding, started, msgCount, handled>>
    /\ UNCHANGED notAudio

NextAudio ==
    \/ \E audio \in BOOLEAN, intr \in BOOLEAN : Receive(audio, intr)
    \/ \E p \in decoding, dur \in 1..MaxDur : DecodeDone(p, dur)
    \/ \E i \in DOMAIN started : Ended(i)
    \/ Tick

(***************************************************************************)
(* Properties of the playback path                                         *)
(***************************************************************************)

EmptyPlay(b) == PlayTo(b) <= PlayFrom(b)
DisjointPlay(a, b) ==
    EmptyPlay(a) \/ EmptyPlay(b) \/ PlayTo(a) <= PlayFrom(b) \/ PlayTo(b) <= PlayFrom(a)

\* C1: no two buffers started by onmessage sound during overlapping intervals,
\* a buffer sounding from max(start argument, clock at the start call) for its
\* duration (or until it is stopped).
C1_NoOverlap ==
    \A i, j \in DOMAIN started :
        i < j => DisjointPlay(started[i], started[j])

\* C2: once the interrupted flag of message k was handled, no chunk received
\* before k (a smaller message id) is playing or scheduled, whenever its
\* decodeAudioData call resolved.
C2_InterruptSilencesEarlier ==
    \A k \in handled : \A i \in DOMAIN started :
        started[i].id < k => ~Live(started[i])

\* Entry i follows entry i-1 with no interruption handled between the two
\* source.start calls.
SameEpoch(i) == i > 1 /\ started[i - 1].epoch = started[i].epoch

StartOrder ==
    \A i \in DOMAIN started :
        SameEpoch(i) => started[i].arg >= started[i - 1].arg + started[i - 1].dur

\* C5: between two interruptions the arguments of source.start advance by at
\* least the duration of the buffer scheduled before, and nextStartTime never
\* decreases except by the reset to 0 when an interruption is handled.
C5_StartTimesAdvance ==
    /\ []StartOrder
    /\ [][\/ nextStartTime' >= nextStartTime
          \/ nextStartTime' = 0 /\ handled' # handled]_vars

\* Two buffers scheduled one after the other in one epoch, the second of them
\* received while the first was still scheduled.
C5_Witness ==
    \E i \in DOMAIN started :
        SameEpoch(i) /\ started[i].arg > 0 /\ started[i].busy

\* Where the buffer scheduled before entry i stops sounding when left alone.
PrevEnd(i) == started[i - 1].begin + started[i - 1].dur

\* C6: a chunk received while audio scheduled before it has not finished
\* (nextStartTime at or after the clock) begins to sound exactly where the
\* buffer scheduled before it ends; a chunk received after the queue ran dry
\* begins at the clock of its source.start call, unless another chunk was
\* scheduled meanwhile.
C6_BackToBack ==
    \A i \in DOMAIN started :
        IF started[i].busy
        THEN SameEpoch(i) => started[i].begin = PrevEnd(i)
        ELSE SameEpoch(i) \/ started[i].begin = started[i].at

\* C7: immediately after the interrupted branch ran, every source that was
\* tracked (the one of the same message included) has been stopped, the set
\* is empty and nextStartTime is 0.
C7_InterruptResets ==
    lastAudio.op = "interrupt" =>
        /\ sources = {}
        /\ nextStartTime = 0
        /\ \A id \in lastAudio.tracked :
              \E i \in DOMAIN started :
                  started[i].id = id /\ started[i].stopAt # NoStop

\* An interruption that found two tracked sources, one of them scheduled from
\* the audio part of the interrupting message itself and not yet sounding.
C7_Witness ==
    /\ lastAudio.op = "interrupt"
    /\ Cardinality(lastAudio.tracked) >= 2
    /\ \E i \in DOMAIN started :
          /\ started[i].id \in handled
          /\ started[i].id \in lastAudio.tracked
          /\ started[i].begin >= started[i].stopAt

(***************************************************************************)
(* CAPTURE PATH: createBlob                                                *)
(***************************************************************************)

TwoTo15 == 32768
TwoTo16 == 65536

\* The samples a frame may hold: k stands for the float k / SampleDen.
Samples == (0 - SampleDen)..SampleDen

\* Sequences over S of length at most n.
SeqsUpTo(S, n) == UNION {[1..m -> S] : m \in 0..n}

\* Truncation toward zero of the rational num / den (den > 0).
Trunc(num, den) == IF num >= 0 THEN num \div den ELSE 0 - ((0 - num) \div den)

\* Storing the number num / den into an Int16Array element (line 41): ToInt16
\* truncates toward zero and wraps modulo 2^16 into [-2^15, 2^15 - 1].
ToInt16(num, den) ==
    LET m == Trunc(num, den) % TwoTo16
    IN IF m >= TwoTo15 THEN m - TwoTo16 ELSE m

\* data[i] * 32768, as a rational over SampleDen                  (line 41)
Scale(k) == k * TwoTo15

\* The loop of createBlob (lines 38-42).
Quantize(data) == [i \in DOMAIN data |-> ToInt16(Scale(data[i]), SampleDen)]

InitBlob ==
    /\ frame \in SeqsUpTo(Samples, MaxFrameLen)
    /\ int16 = <<>>
    /\ blobDone = FALSE

IdleBlob ==
    /\ frame = <<>>
    /\ int16 = <<>>
    /\ blobDone = FALSE

\* createBlob(data)                                           (lines 37-47)
CreateBlob ==
    /\ ~blobDone
    /\ int16' = Quantize(frame)
    /\ blobDone' = TRUE
    /\ UNCHANGED <<frame, notBlob>>

NextBlob == CreateBlob

\* C10: the output holds one sample per input sample, in order; each stored
\* value is s * 32768 truncated toward zero, lies in [-32768, 32767] and does
\* not have the sign opposite to s, for every s in [-1, 1], s = 1 included.
C10_LinearQuantization ==
    blobDone =>
        /\ Len(int16) = Len(frame)
        /\ \A i \in DOMAIN frame :
              /\ int16[i] = Trunc(frame[i] * TwoTo15, SampleDen)
              /\ int16[i] \in (0 - TwoTo15)..(TwoTo15 - 1)
              /\ (frame[i] > 0 => int16[i] >= 0)
              /\ (frame[i] < 0 => int16[i] <= 0)

(***************************************************************************)
(* CAPTURE PATH: onaudioprocess and close                                  *)
(***************************************************************************)

CloseJob == 0   \* the callback session => session.close(); frames are 1, 2, ...

\* A close that does not wait its turn behind the frames already queued.
CloseJumpsQueue(q) == <<CloseJob>> \o q

\* sessionPromise.then(session => session.close())               (line 129)
CloseEnqueue(q) == Append(q, CloseJob)

\* sessionPromise.then(session => session.sendRealtimeInput(..))  (lines 120-122)
SendEnqueue(q, f) == Append(q, f)

InitMic ==
    /\ promise = "pending"
    /\ reactions = <<>>
    /\ jobs = <<>>
    /\ captured = <<>>
    /\ sent = <<>>
    /\ earlyFrames = 0
    /\ closeCalled = FALSE
    /\ closeMark = 0
    /\ sessionClosed = FALSE

\* scriptProcessor.onaudioprocess (lines 117-123).  An audioprocess event
\* already dispatched may still be handled after close() disconnected the
\* node, so the handler is not tied to closeCalled.
Capture ==
    /\ Len(captured) < MaxFrames
    /\ LET f == Len(captured) + 1 IN
       /\ captured' = Append(captured, f)
       /\ reactions' = IF promise = "pending" THEN SendEnqueue(reactions, f)
                       ELSE reactions
       /\ jobs' = IF promise = "resolved" THEN SendEnqueue(jobs, f) ELSE jobs
    /\ earlyFrames' = IF promise = "pending" THEN earlyFrames + 1 ELSE earlyFrames
    /\ UNCHANGED <<promise, sent, closeCalled, closeMark, sessionClosed, notMic>>

\* ai.live.connect resolves: the registered callbacks are queued in the order
\* of their registration.
Resolve ==
    /\ promise = "pending"
    /\ promise' = "resolved"
    /\ jobs' = jobs \o reactions
    /\ reactions' = <<>>
    /\ UNCHANGED <<captured, sent, earlyFrames, closeCalled, closeMark, sessionClosed>>
    /\ UNCHANGED notMic

\* ai.live.connect rejects: callbacks registered with .then(onFulfilled) alone
\* never run.
Reject ==
    /\ promise = "pending"
    /\ promise' = "rejected"
    /\ reactions' = <<>>
    /\ UNCHANGED <<jobs, captured, sent, earlyFrames, closeCalled, closeMark,
                   sessionClosed, notMic>>

\* The next queued callback runs (the bodies of lines 121 and 129).
RunJob ==
    /\ jobs # <<>>
    /\ jobs' = Tail(jobs)
    /\ IF Head(jobs) = CloseJob
       THEN /\ sessionClosed' = TRUE
            /\ UNCHANGED sent
       ELSE /\ sent' = Append(sent, Head(jobs))
            /\ UNCHANGED sessionClosed
    /\ UNCHANGED <<promise, reactions, captured, earlyFrames, closeCalled, closeMark>>
    /\ UNCHANGED notMic

\* close()                                                    (lines 128-135)
Close ==
    /\ ~closeCalled
    /\ closeCalled' = TRUE
    /\ closeMark' = Len(captured)
    /\ reactions' = IF promise = "pending" THEN CloseEnqueue(reactions)
                    ELSE reactions
    /\ jobs' = IF promise = "resolved" THEN CloseEnqueue(jobs) ELSE jobs
    /\ UNCHANGED <<promise, captured, sent, earlyFrames, sessionClosed, notMic>>

NextMic ==
    \/ Capture
    \/ Resolve
    \/ Reject
    \/ RunJob
    \/ Close

IsPrefix(a, b) == Len(a) <= Len(b) /\ \A i \in DOMAIN a : a[i] = b[i]

\* C9: no frame is sent before sessionPromise resolved; once it has resolved
\* and the queued callbacks have run, every captured frame (those captured
\* while connecting included) was sent; frames are sent in capture order; and
\* session.close() runs only after every frame captured before close().
C9_SerializedSend ==
    /\ sent # <<>> => promise = "resolved"
    /\ IsPrefix(sent, captured)
    /\ (promise = "resolved" /\ jobs = <<>>) => sent = captured
    /\ sessionClosed => Len(sent) >= closeMark

\* Frames captured while connecting and after, all sent in order, and then the
\* session closed by a close() requested after them.
C9_Witness ==
    /\ sessionClosed
    /\ earlyFrames >= 1
    /\ closeMark > earlyFrames
    /\ sent = captured

(***************************************************************************)
(* TRANSCRIPT ACCUMULATOR: App.handleStart.onMessage                       *)
(***************************************************************************)

\* Text is a sequence of characters: SP is a blank, every other character is
\* the token of one fragment (2n-1 for the input fragment of the n-th call,
\* 2n for its output fragment) or of one file-query answer (-n).
SP == 0
InTok(n)   == 2 * n - 1
OutTok(n)  == 2 * n
RespTok(n) == 0 - n

\* What a transcript argument may be: absent (null or ''), or a fragment
\* holding its token with a blank on either side.
Texts(tok) == {<<>>, <<SP, tok, SP>>}

ErrMsgs == {"e1"}
NoAudioMsg == "No audio data received from TTS API."
NoError == [kind |-> "none", msg |-> ""]

\* A banner that leaves the caught error's message out.
FileQueryBannerGeneric(msg) == [kind |-> "file", msg |-> ""]

\* `Error answering question about files: ${err.message}`         (line 299)
FileQueryBanner(msg) == [kind |-> "file", msg |-> msg]

RECURSIVE TrimLeft(_)
TrimLeft(s) ==
    IF s = <<>> THEN <<>>
    ELSE IF Head(s) = SP THEN TrimLeft(Tail(s)) ELSE s

RECURSIVE TrimRight(_)
TrimRight(s) ==
    IF s = <<>> THEN <<>>
    ELSE IF s[Len(s)] = SP THEN TrimRight(SubSeq(s, 1, Len(s) - 1)) ELSE s

\* String.prototype.trim                                      (lines 273-274)
Trim(s) == TrimRight(TrimLeft(s))

\* if (t) ref.current += t                                    (lines 265-270)
AppendFragment(ref, frag) == IF frag # <<>> THEN ref \o frag ELSE ref

\* newHistory                                                 (lines 276-282)
NewHistory(fullInput, fullOutput) ==
    (IF fullInput # <<>> THEN <<[author |-> "user", text |-> fullInput]>>
     ELSE <<>>)
    \o (IF fullOutput # <<>> THEN <<[author |-> "gemini", text |-> fullOutput]>>
        ELSE <<>>)

\* fullInput && uploadedFiles.length > 0                          (line 288)
WantsFileQuery(fullInput, files) == fullInput # <<>> /\ Len(files) > 0

Quiet == [turn |-> FALSE, returned |-> FALSE, quiet |-> FALSE,
          pre |-> <<>>, expect |-> <<>>, failed |-> ""]

InitTranscript ==
    /\ inputRef = <<>>
    /\ outputRef = <<>>
    /\ history = <<>>
    /\ isProcessingFileQuery = FALSE
    /\ error = NoError
    /\ queries = {}
    /\ closureFiles \in {<<>>, <<"f1">>}
    /\ uploadedFiles = closureFiles
    /\ callCount = 0
    /\ queryCount = 0
    /\ pendIn = <<>>
    /\ pendOut = <<>>
    /\ delivered = {}
    /\ earlier = {}
    /\ lastMsg = Quiet

IdleTranscript ==
    /\ inputRef = <<>>
    /\ outputRef = <<>>
    /\ history = <<>>
    /\ isProcessingFileQuery = FALSE
    /\ error = NoError
    /\ queries = {}
    /\ closureFiles = <<>>
    /\ uploadedFiles = <<>>
    /\ callCount = 0
    /\ queryCount = 0
    /\ pendIn = <<>>
    /\ pendOut = <<>>
    /\ delivered = {}
    /\ earlier = {}
    /\ lastMsg = Quiet

\* onMessage(input, output, isTurnComplete) up to its first await or its
\* return (lines 265-292, 305-306).
OnMessage(input, output, tc) ==
    /\ \E n \in DOMAIN sessions : sessions[n].socket = "open"
    /\ callCount < MaxCalls
    /\ (tc /\ WantsFileQuery(Trim(AppendFragment(inputRef, input)), closureFiles))
          => queryCount < MaxQueries
    /\ queryCount' = IF tc /\ WantsFileQuery(Trim(AppendFragment(inputRef, input)), closureFiles)
                     THEN queryCount + 1 ELSE queryCount
    /\ callCount' = callCount + 1
    /\ delivered' = delivered \cup (({InTok(callCount + 1)} \cap {input[i] : i \in DOMAIN input})
                                    \cup ({OutTok(callCount + 1)} \cap {output[i] : i \in DOMAIN output}))
    /\ LET in1  == AppendFragment(inputRef, input)
           out1 == AppendFragment(outputRef, output)
           fullInput  == Trim(in1)
           fullOutput == Trim(out1)
       IN IF ~tc
          THEN /\ inputRef' = in1
               /\ outputRef' = out1
               /\ pendIn' = pendIn \o input
               /\ pendOut' = pendOut \o output
               /\ lastMsg' = Quiet
               /\ UNCHANGED <<history, isProcessingFileQuery, error, queries>>
          ELSE /\ history' = history \o NewHistory(fullInput, fullOutput)
               /\ pendIn' = <<>>
               /\ pendOut' = <<>>
               /\ IF WantsFileQuery(fullInput, closureFiles)
                  THEN /\ isProcessingFileQuery' = TRUE
                       /\ error' = NoError
                       /\ queries' = queries \cup
                             {[id |-> callCount + 1, stage |-> "content",
                               prompt |-> fullInput, files |-> closureFiles]}
                       /\ inputRef' = in1
                       /\ outputRef' = out1
                  ELSE /\ inputRef' = <<>>
                       /\ outputRef' = <<>>
                       /\ UNCHANGED <<isProcessingFileQuery, error, queries>>
               /\ lastMsg' = [turn |-> TRUE,
                              returned |-> ~WantsFileQuery(fullInput, closureFiles),
                              quiet |-> queries = {},
                              pre |-> history,
                              expect |-> NewHistory(Trim(pendIn \o input),
                                                    Trim(pendOut \o output)),
                              failed |-> ""]
    /\ UNCHANGED <<closureFiles, notTranscript>>

\* The end of an invocation that ran the file query: finally (line 301) and the
\* clearing of both accumulators (lines 305-306); msg is the message of the
\* error caught on the way, "" when there was none.
FinishQuery(q, msg) ==
    /\ queries' = queries \ {q}
    /\ isProcessingFileQuery' = FALSE
    /\ inputRef' = <<>>
    /\ outputRef' = <<>>
    /\ lastMsg' = [Quiet EXCEPT !.returned = TRUE, !.failed = msg]
    /\ UNCHANGED <<closureFiles, callCount, queryCount, pendIn, pendOut, delivered,
                   notTranscript>>

\* generateContentWithFiles resolves (lines 292-294): the answer is appended
\* and the invocation awaits generateSpeech.
ContentResolved(q) ==
    /\ q \in queries /\ q.stage = "content"
    /\ history' = Append(history, [author |-> "gemini", text |-> <<RespTok(q.id)>>])
    /\ queries' = (queries \ {q}) \cup {[q EXCEPT !.stage = "speech"]}
    /\ lastMsg' = Quiet
    /\ UNCHANGED <<inputRef, outputRef, isProcessingFileQuery, error, closureFiles,
                   callCount, queryCount, pendIn, pendOut, delivered, notTranscript>>

\* generateContentWithFiles rejects (lines 296-302, 305-306).
ContentRejected(q, msg) ==
    /\ q \in queries /\ q.stage = "content"
    /\ error' = FileQueryBanner(msg)
    /\ UNCHANGED history
    /\ FinishQuery(q, msg)

\* generateSpeech resolves and playAudio runs (lines 294-295, 300-306).
SpeechResolved(q) ==
    /\ q \in queries /\ q.stage = "speech"
    /\ UNCHANGED <<history, error>>
    /\ FinishQuery(q, "")

\* generateSpeech rejects, or throws for want of audio data (lines 186-189,
\* 296-302, 305-306).
SpeechRejected(q, msg) ==
    /\ q \in queries /\ q.stage = "speech"
    /\ error' = FileQueryBanner(msg)
    /\ UNCHANGED history
    /\ FinishQuery(q, msg)

\* The vendor session delivers one message (lines 99-102).
NextOnMessage ==
    \E tc \in BOOLEAN :
        \E input \in Texts(InTok(callCount + 1)), output \in Texts(OutTok(callCount + 1)) :
            OnMessage(input, output, tc)

NextTranscript ==
    \/ NextOnMessage
    \/ \E q \in queries : ContentResolved(q)
    \/ \E q \in queries, msg \in ErrMsgs : ContentRejected(q, msg)
    \/ \E q \in queries : SpeechResolved(q)
    \/ \E q \in queries, msg \in ErrMsgs \cup {NoAudioMsg} : SpeechRejected(q, msg)

\* ---- the uploaded file list: handleFileChange, handleRemoveFile
\* A file is modelled by its name, the key both handlers go by.
FileNames == {"f1", "f2"}

\* Array.from(event.target.files): the files of one selection.
Selections ==
    {<<a>> : a \in FileNames}
        \cup {<<a, b>> : <<a, b>> \in {x \in FileNames \X FileNames : x[1] # x[2]}}

\* prevFiles.filter(file => file.name !== fileName)               (line 252)
RECURSIVE WithoutName(_, _)
WithoutName(files, name) ==
    IF files = <<>> THEN <<>>
    ELSE IF Head(files) = name THEN WithoutName(Tail(files), name)
         ELSE <<Head(files)>> \o WithoutName(Tail(files), name)

\* new Map(prevFiles...), fileMap.set(file.name, file) for each new file,
\* Array.from(fileMap.values()): a name already listed keeps its place, a new
\* name goes to the end                                       (lines 229-239)
RECURSIVE MergeFiles(_, _)
MergeFiles(prevFiles, newFiles) ==
    IF newFiles = <<>> THEN prevFiles
    ELSE MergeFiles(IF Head(newFiles) \in {prevFiles[i] : i \in DOMAIN prevFiles}
                    THEN prevFiles ELSE Append(prevFiles, Head(newFiles)),
                    Tail(newFiles))

\* handleFileChange with a selection                          (lines 226-245)
HandleFileChange(newFiles) ==
    /\ uploadedFiles' = MergeFiles(uploadedFiles, newFiles)
    /\ UNCHANGED notFiles

\* handleRemoveFile, from the remove button of a listed file  (lines 251-253)
HandleRemoveFile(fileName) ==
    /\ fileName \in {uploadedFiles[i] : i \in DOMAIN uploadedFiles}
    /\ uploadedFiles' = WithoutName(uploadedFiles, fileName)
    /\ UNCHANGED notFiles

NextFiles ==
    \/ \E newFiles \in Selections : HandleFileChange(newFiles)
    \/ \E fileName \in FileNames : HandleRemoveFile(fileName)

Chars(s) == {s[i] : i \in DOMAIN s}

\* The history entries whose text holds the fragment with token t.
EntriesWith(t) == {i \in DOMAIN history : t \in Chars(history[i].text)}

AuthorOf(t) == IF t % 2 = 1 THEN "user" ELSE "gemini"

\* C3: every fragment delivered to onMessage is, from the next turn-complete
\* call on, contained in exactly one history entry (of its author): none is
\* dropped, none is committed twice, whatever the interleaving of invocations.
C3_EachFragmentOnce ==
    \A t \in delivered :
        t \notin Chars(pendIn) \cup Chars(pendOut) =>
            /\ Cardinality(EntriesWith(t)) = 1
            /\ \A i \in EntriesWith(t) : history[i].author = AuthorOf(t)

\* C4: a turn-complete call made while no other invocation is in progress
\* extends the history by the user entry and then the gemini entry built from
\* the trimmed concatenation of the fragments received since the previous
\* turn completion (empty ones omitted), leaving earlier entries unchanged;
\* and when a turn-complete invocation returns both accumulators are empty.
C4_TurnCommit ==
    /\ (lastMsg.turn /\ lastMsg.quiet) => history = lastMsg.pre \o lastMsg.expect
    /\ lastMsg.returned => inputRef = <<>> /\ outputRef = <<>>

\* C14: at a turn completion whose trimmed user input is not empty, a file
\* query is issued exactly when the uploaded file list is not empty at that
\* moment, and with exactly the files then in the list.
C14_QueryUsesCurrentFiles ==
    [][(/\ callCount' # callCount
        /\ lastMsg'.turn
        /\ Len(history') > Len(history)
        /\ history'[Len(history) + 1].author = "user")
          => /\ (uploadedFiles # <<>>) <=> (\E q \in queries' : q.id = callCount')
             /\ \A q \in queries' : q.id = callCount' => q.files = uploadedFiles]_vars

\* C15: when a file query fails (generateContentWithFiles or generateSpeech
\* rejects, generateSpeech for want of audio data included) the banner holds
\* the failure's message, isProcessingFileQuery is false, both accumulators
\* are empty, the history is as it was, and the app state, the sessions and
\* liveSessionRef are untouched.
C15_FailedQuery ==
    [][lastMsg'.failed # ""
          => /\ error'.kind = "file"
             /\ error'.msg = lastMsg'.failed
             /\ ~isProcessingFileQuery'
             /\ inputRef' = <<>>
             /\ outputRef' = <<>>
             /\ history' = history
             /\ appState' = appState
             /\ sessions' = sessions
             /\ liveSessionRef' = liveSessionRef]_vars

\* A file query whose answer was committed failed in generateSpeech for want
\* of audio data, during a connected conversation.
C15_Witness ==
    /\ lastMsg.failed = NoAudioMsg
    /\ error.msg = NoAudioMsg
    /\ \E i \in DOMAIN history : \E c \in Chars(history[i].text) : c < 0
    /\ appState = "CONNECTED"
    /\ liveSessionRef \in DOMAIN sessions
    /\ ~sessions[liveSessionRef].closeRequested

\* C16: isProcessingFileQuery is true exactly while at least one file query is
\* in flight.
C16_FlagTracksQueries ==
    isProcessingFileQuery <=> (queries # {})

(***************************************************************************)
(* SESSION LIFECYCLE: handleStart, handleStop, onOpen, onError, onClose     *)
(***************************************************************************)

NoSession == 0
LiveErrMsgs == {"e1", "e2"}

\* `An error occurred: ${e.message}. Please try again.`           (line 316)
LiveBanner(msg) == [kind |-> "live", msg |-> msg]

\* `Failed to start session: ${err.message}. Please ensure ...`   (line 336)
StartBanner(msg) == [kind |-> "start", msg |-> msg]

\* The session startConversation has set up when it awaits getUserMedia
\* (lines 50-113); `seen` is the appState the handleStart closure captured.
NewSession(seen) ==
    [mic |-> "asking", socket |-> "connecting", closeRequested |-> FALSE,
     procConnected |-> FALSE, srcConnected |-> FALSE, ctxClosed |-> FALSE,
     tracksStopped |-> FALSE, closureAppState |-> seen]

\* A close that leaves the microphone tracks running.
CloseKeepsTracks(r) ==
    [r EXCEPT !.closeRequested = TRUE, !.procConnected = FALSE,
              !.srcConnected = FALSE, !.ctxClosed = TRUE]

\* close()                                                    (lines 128-135)
CloseSession(r) ==
    [r EXCEPT !.closeRequested = TRUE, !.procConnected = FALSE,
              !.srcConnected = FALSE, !.ctxClosed = TRUE, !.tracksStopped = TRUE]

\* if (liveSessionRef.current) { stopConversation(...) }  (lines 318-321, 342-345)
StopRef(ss, ref) ==
    IF ref # NoSession THEN [ss EXCEPT ![ref] = CloseSession(ss[ref])] ELSE ss

OtherStep == [op |-> "other", msg |-> "", ref |-> NoSession]

InitApp ==
    /\ appState = "IDLE"
    /\ liveSessionRef = NoSession
    /\ sessions = <<>>
    /\ lastApp = OtherStep

\* A running conversation: the state after handleStart from IDLE, the
\* resolution of getUserMedia and onOpen.
ConnectedApp ==
    /\ appState = "CONNECTED"
    /\ liveSessionRef = 1
    /\ sessions = <<[NewSession("IDLE") EXCEPT !.mic = "granted", !.socket = "open",
                                               !.procConnected = TRUE,
                                               !.srcConnected = TRUE]>>
    /\ lastApp = OtherStep

\* A click on Start (offered in IDLE and ERROR, part_000:118-125): handleStart
\* up to `await getUserMedia` inside startConversation (lines 256-258, 331,
\* 50-113).  The callbacks it creates close over the uploadedFiles of this
\* render (line 288).
HandleStart ==
    /\ appState \in {"IDLE", "ERROR"}
    /\ Len(sessions) < MaxStarts
    /\ error' = NoError
    /\ appState' = "CONNECTING"
    /\ history' = <<>>
    /\ sessions' = Append(sessions, NewSession(appState))
    /\ closureFiles' = uploadedFiles
    /\ earlier' = delivered
    /\ lastApp' = [op |-> "start", msg |-> "", ref |-> NoSession]
    /\ UNCHANGED <<liveSessionRef, notApp>>

\* getUserMedia resolves: startConversation wires the microphone and returns
\* (lines 113-137) and handleStart stores the session (line 332).
MicGranted(n) ==
    /\ n \in DOMAIN sessions
    /\ sessions[n].mic = "asking"
    /\ sessions' = [sessions EXCEPT ![n] =
          [@ EXCEPT !.mic = "granted", !.procConnected = TRUE, !.srcConnected = TRUE]]
    /\ liveSessionRef' = n
    /\ lastApp' = OtherStep
    /\ UNCHANGED <<appState, error, history, closureFiles, earlier, notApp>>

\* getUserMedia rejects: startConversation throws into the catch of
\* handleStart (lines 333-338).
MicDenied(n, msg) ==
    /\ n \in DOMAIN sessions
    /\ sessions[n].mic = "asking"
    /\ sessions' = [sessions EXCEPT ![n].mic = "denied"]
    /\ error' = StartBanner(msg)
    /\ appState' = "ERROR"
    /\ lastApp' = OtherStep
    /\ UNCHANGED <<liveSessionRef, history, closureFiles, earlier, notApp>>

\* onopen -> onOpen (lines 72-74, 310-312).
OnOpen(n) ==
    /\ n \in DOMAIN sessions
    /\ sessions[n].socket = "connecting"
    /\ sessions' = [sessions EXCEPT ![n].socket = "open"]
    /\ appState' = "CONNECTED"
    /\ lastApp' = OtherStep
    /\ UNCHANGED <<liveSessionRef, error, history, closureFiles, earlier, notApp>>

\* onerror -> onError (lines 104-106, 314-322).
OnError(n, msg) ==
    /\ n \in DOMAIN sessions
    /\ sessions[n].socket # "closed"
    /\ error' = LiveBanner(msg)
    /\ appState' = "ERROR"
    /\ sessions' = StopRef(sessions, liveSessionRef)
    /\ liveSessionRef' = NoSession
    /\ lastApp' = [op |-> "onError", msg |-> msg, ref |-> liveSessionRef]
    /\ UNCHANGED <<history, closureFiles, earlier, notApp>>

\* onclose -> onClose (lines 107-109, 324-328): the vendor session has closed,
\* of itself or after session.close().  onClose reads the appState its closure
\* captured.
OnClose(n) ==
    /\ n \in DOMAIN sessions
    /\ sessions[n].socket # "closed"
    /\ sessions' = [sessions EXCEPT ![n].socket = "closed"]
    /\ appState' = IF sessions[n].closureAppState # "ERROR" THEN "IDLE" ELSE appState
    /\ lastApp' = OtherStep
    /\ UNCHANGED <<liveSessionRef, error, history, closureFiles, earlier, notApp>>

\* A click on Stop (offered in CONNECTED): handleStop (lines 341-347).
HandleStop ==
    /\ appState = "CONNECTED"
    /\ sessions' = StopRef(sessions, liveSessionRef)
    /\ liveSessionRef' = NoSession
    /\ appState' = "IDLE"
    /\ lastApp' = OtherStep
    /\ UNCHANGED <<error, history, closureFiles, earlier, notApp>>

NextApp ==
    \/ HandleStart
    \/ \E n \in DOMAIN sessions : MicGranted(n)
    \/ \E n \in DOMAIN sessions, msg \in LiveErrMsgs : MicDenied(n, msg)
    \/ \E n \in DOMAIN sessions : OnOpen(n)
    \/ \E n \in DOMAIN sessions, msg \in LiveErrMsgs : OnError(n, msg)
    \/ \E n \in DOMAIN sessions : OnClose(n)
    \/ HandleStop

\* Everything close() does to a session.
Closed(r) ==
    /\ r.closeRequested
    /\ ~r.procConnected
    /\ ~r.srcConnected
    /\ r.ctxClosed
    /\ r.tracksStopped

\* C8: right after onError(e) the banner holds e's message, the app state is
\* ERROR, liveSessionRef is cleared, and the session it held, if any, has been
\* closed: close requested, script processor and microphone source
\* disconnected, input context closed, microphone tracks stopped.
C8_OnErrorClosesSession ==
    lastApp.op = "onError" =>
        /\ error = LiveBanner(lastApp.msg)
        /\ appState = "ERROR"
        /\ liveSessionRef = NoSession
        /\ lastApp.ref # NoSession => Closed(sessions[lastApp.ref])

\* onError ran while liveSessionRef held a session with its microphone wired.
C8_Witness ==
    /\ lastApp.op = "onError"
    /\ lastApp.ref # NoSession
    /\ sessions[lastApp.ref].mic = "granted"
    /\ lastApp.msg = "e2"

\* C11: once the app state is ERROR it stays ERROR until Start is clicked
\* (which makes it CONNECTING): no callback, such as an onClose after the
\* onError or a late onOpen, moves it to IDLE or CONNECTED.
C11_ErrorIsSticky ==
    [][appState = "ERROR" => appState' \in {"ERROR", "CONNECTING"}]_vars

\* A session whose microphone capture runs and whose frames reach an open
\* vendor session: wired, never closed by close(), socket not closed.
Capturing(r) ==
    /\ r.mic = "granted"
    /\ r.procConnected
    /\ ~r.tracksStopped
    /\ ~r.closeRequested
    /\ r.socket # "closed"

\* C12: whenever the app state is IDLE no session is still capturing the
\* microphone and sending frames.
C12_IdleMeansClosed ==
    appState = "IDLE" => \A n \in DOMAIN sessions : ~Capturing(sessions[n])

\* A session that is open: its vendor connection has not closed and close()
\* has not been called on it.
Open(r) == r.socket # "closed" /\ ~r.closeRequested

\* C13: at most one session created by startConversation is open at any
\* moment (a session whose getUserMedia failed or that reported an error
\* included), and liveSessionRef is never overwritten while it holds an
\* open session.
C13_OneOpenSession ==
    /\ [](Cardinality({n \in DOMAIN sessions : Open(sessions[n])}) <= 1)
    /\ [][(liveSessionRef # NoSession /\ liveSessionRef' # liveSessionRef
           /\ liveSessionRef' # NoSession)
             => ~Open(sessions[liveSessionRef])]_vars

\* C17: handleStart empties the history and clears the banner, and no history
\* entry of a conversation holds a fragment that was delivered before that
\* conversation's Start click.
C17_CleanTranscript ==
    /\ [](\A i \in DOMAIN history : Chars(history[i].text) \cap earlier = {})
    /\ [][Len(sessions') > Len(sessions) => history' = <<>> /\ error' = NoError]_vars

(***************************************************************************)
(* Specifications                                                          *)
(***************************************************************************)

StartAudio == InitAudio /\ IdleBlob /\ InitMic /\ IdleTranscript /\ InitApp
StartBlob  == InitAudio /\ InitBlob /\ InitMic /\ IdleTranscript /\ InitApp
StartMic   == InitAudio /\ IdleBlob /\ InitMic /\ IdleTranscript /\ InitApp
StartTranscript == InitAudio /\ IdleBlob /\ InitMic /\ InitTranscript /\ ConnectedApp
StartApp   == InitAudio /\ IdleBlob /\ InitMic /\ IdleTranscript /\ InitApp

SpecAudio == StartAudio /\ [][NextAudio]_vars

SpecBlob == StartBlob /\ [][NextBlob]_vars

SpecMic == StartMic /\ [][NextMic]_vars

SpecTranscript == StartTranscript /\ [][NextTranscript]_vars

SpecApp == StartApp /\ [][NextApp]_vars

\* A running conversation in which files are added and removed.
NextConversation == NextTranscript \/ NextFiles

SpecFiles == StartTranscript /\ [][NextConversation]_vars

\* Conversations started, stopped or failed, and started again, with the
\* microphone granted and no file uploaded.
NextRestart ==
    \/ HandleStart
    \/ \E n \in DOMAIN sessions : MicGranted(n)
    \/ \E n \in DOMAIN sessions : OnOpen(n)
    \/ \E n \in DOMAIN sessions, msg \in ErrMsgs : OnError(n, msg)
    \/ \E n \in DOMAIN sessions : OnClose(n)
    \/ HandleStop
    \/ NextOnMessage

SpecRestart == StartApp /\ [][NextRestart]_vars

====
